---- MODULE Spec2Model ----
(***************************************************************************)
(* PVMantz / PBala: a master (src/src/PBala.c, main) that distributes the  *)
(* lines of a data file over PVM worker tasks, and the worker              *)
(* (src/task_fork.c, main) that forks one execution per task.              *)
(*                                                                         *)
(* The master is modelled in dispatch mode (arguments.kill = 0).  Every    *)
(* answer of the environment (file system, PVM daemon, fork, memcheck,     *)
(* the user program) is a nondeterministic choice made at the step that    *)
(* asks for it.  Variables that only record what happened (hist, sentLog,  *)
(* recvLog, pvmStarted, exitAt) are history variables; no guard reads them.  *)
(***************************************************************************)
EXTENDS Integers, Sequences, FiniteSets, TLC

(* ----------------------------- bounds ---------------------------------- *)
MaxTasks == 3
MaxSlots == 3
MaxDups == 5

(* ------------------------- program constants --------------------------- *)
E_ARGS == 10
E_NODE_LINES == 11
E_NODE_OPEN == 12
E_NODE_READ == 13
E_CWD == 14
E_PVM_MYTID == 15
E_PVM_PARENT == 16
E_DATAFILE_LINES == 17
E_OUTFILE_OPEN == 18
E_PVM_SPAWN == 19
E_DATAFILE_FIRSTCOL == 20
E_OUTDIR == 21
E_WRONG_TASK == 22
\* PBala_errcodes.h is not among the sources: the three codes below and
\* ST_MEM_ERR are only known to be distinct from the others.
E_PVM_DUP == 23
E_MPL == 24
E_IO == 25
ST_MEM_ERR == 9
ST_FORK_ERR == 10
ST_TASK_KILLED == 11

\* message tags of antz_lib.h / PBala_lib.h (four distinct kinds)
MSG_GREETING == "MSG_GREETING"
MSG_WORK == "MSG_WORK"
MSG_RESULT == "MSG_RESULT"
MSG_STOP == "MSG_STOP"

Running == -1          \* exitCode while main has not returned
NoTask == 0            \* taskNumber before the first unpack
NoArgs == 0            \* aux_str / arguments before the first write

(* ------------------------------ inputs --------------------------------- *)
RECURSIVE SumCores(_)
SumCores(cores) ==
  IF cores = <<>> THEN 0 ELSE Head(cores) + SumCores(Tail(cores))

\* node files, one line per node with its number of cores: for every total
\* n of cores one file, a single one-core node or a one-core node followed
\* by a node with the other n - 1 cores
Roster(n) == IF n = 1 THEN <<1>> ELSE <<1, n - 1>>

Rosters == { Roster(n) : n \in 1..MaxSlots }

\* values of programflag: 0 (Maple) stands for the types the worker execs,
\* 3 (Pari) for those that need a wrapper script, 6 is not a type
TaskTypes == {0, 3, 6}

(* text: a string is the sequence of its characters *)
Digits == <<"0", "1", "2", "3", "4", "5", "6", "7", "8", "9">>

IsDigit(c) == \E i \in 1..Len(Digits) : Digits[i] = c

DigitVal(c) == (CHOOSE i \in 1..Len(Digits) : Digits[i] = c) - 1

IsSpace(c) == c \in {" ", "\t", "\n"}

\* sprintf(aux_str, "%d", taskNumber): the decimal text of an integer
RECURSIVE sprintf_d(_)
sprintf_d(n) ==
  IF n < 0 THEN <<"-">> \o sprintf_d(-n)
  ELSE IF n < Len(Digits) THEN <<Digits[n + 1]>>
  ELSE sprintf_d(n \div Len(Digits)) \o <<Digits[(n % Len(Digits)) + 1]>>

RECURSIVE SkipSpace(_)
SkipSpace(t) ==
  IF t # <<>> /\ IsSpace(Head(t)) THEN SkipSpace(Tail(t)) ELSE t

RECURSIVE ReadDigits(_, _)
ReadDigits(t, acc) ==
  IF t # <<>> /\ IsDigit(Head(t))
    THEN ReadDigits(Tail(t), Len(Digits) * acc + DigitVal(Head(t)))
    ELSE acc

\* sscanf(buffer, "%d", &taskNumber): white space is skipped, then an
\* optional sign and the longest run of digits are converted; n is the
\* value sscanf returns (1 when an integer was read)
sscanf_d(buffer) ==
  LET t == SkipSpace(buffer)
      signed == t # <<>> /\ Head(t) \in {"+", "-"}
      u == IF signed THEN Tail(t) ELSE t
  IN IF u # <<>> /\ IsDigit(Head(u))
       THEN [n |-> 1,
             value |-> IF signed /\ Head(t) = "-"
                         THEN 0 - ReadDigits(u, 0)
                         ELSE ReadDigits(u, 0)]
       ELSE [n |-> 0, value |-> 0]

\* what is packed as the arguments of a task: aux_size is the length of
\* the id printed with %d, the last character of the line is overwritten
\* with the terminator, and the text from buffer[aux_size + 1] on is copied
ExtractArgs(buffer, taskNumber) ==
  LET aux_size == Len(sprintf_d(taskNumber))
      cut == SubSeq(buffer, 1, Len(buffer) - 1)
  IN SubSeq(cut, aux_size + 2, Len(cut))

\* the lines of the data files.  Line k is "<id>,a,<k>" and a newline, with
\* k as the id, written in one of these forms: "plain" (as %d prints it),
\* "zeros" (a leading zero), "signed" (a leading +), "nonl" (plain, but the
\* file ends without a newline: only a last line can be so), "bad" (no
\* integer in the first column).  Every line has the comma after its first
\* field and is shorter than BUFFER_SIZE.
OddForms == {"zeros", "signed", "nonl"}

IdText(k, form) ==
  CASE form = "zeros" -> <<"0">> \o sprintf_d(k)
    [] form = "signed" -> <<"+">> \o sprintf_d(k)
    [] form = "bad" -> <<"x">>
    [] OTHER -> sprintf_d(k)

DataLine(k, form) ==
  IdText(k, form) \o <<",", "a", ",">> \o sprintf_d(k)
    \o (IF form = "nonl" THEN <<>> ELSE <<"\n">>)

\* the file of n lines whose line `odd` (if any) has the form `form`
DataFile(n, odd, form) ==
  [k \in 1..n |-> DataLine(k, IF k = odd THEN form ELSE "plain")]

\* the plain files, those with one bad line, and the shorter ones whose
\* last line has an odd form
DataFiles ==
  { DataFile(n, bad, "bad") : n \in 0..MaxTasks, bad \in 0..MaxTasks }
    \cup { DataFile(n, n, form) : n \in 1..(MaxTasks - 1), form \in OddForms }

Slots == 0..(MaxSlots - 1)

(* ------------------------------ state ---------------------------------- *)
VARIABLES
  mpc,            \* master: position in main
  exitCode,       \* master: value returned by main, Running before
  exitAt,         \* history: the position main returned from
  task_type,      \* master: programflag
  maple_single,   \* master: arguments.maple_single_cpu
  nodeCores,      \* master: cores per node, in node-file order
  dataFile,       \* the data file, a sequence of lines
  mapleState,     \* program file: "orig", "rewritten" (a .bak exists), "restored"
  pvmStarted,     \* history: pvm_start_pvmd has been called
  pvmd,           \* transport daemon: "none", "running", "halted"
  fpos,           \* master: lines of f_data already read by fgets
  itid,           \* master: slot index (spawn loop / unpacked from a result)
  loopi,          \* master: i or j of the current loop (start_tries in
                  \* StartAttempt)
  aux_str,        \* master: the buffer aux_str
  unfPresent,     \* master: unfinished_tasks_present
  unfFile,        \* unfinished_tasks.txt: "absent" or "present"
  unfRows,        \* rows of unfinished_tasks.txt
  auxprog,        \* task ids with an auxprog wrapper script in out_dir
  outDir,         \* the other files of out_dir: outfile.txt, task output
  toWorker,       \* per slot: messages sent by the master, not yet received
  toMaster,       \* per slot: results sent by the worker, not yet received
  wpc,            \* per slot: position of the worker
  wme,            \* per slot: worker's me
  wtype,          \* per slot: worker's task_type
  wtask,          \* per slot: worker's taskNumber
  wargs,          \* per slot: worker's arguments
  depth,          \* per slot: processes of the worker suspended in waitid
  hist,           \* history, per slot: "G" "W" "R" "S" in master order
  sentLog,        \* history: work messages in the order sent
  recvLog         \* history: results in the order received, with handling

ret == <<exitCode, exitAt>>
cfg == <<task_type, maple_single, nodeCores, dataFile>>
queue == <<fpos, itid, loopi, aux_str>>
unf == <<unfPresent, unfFile, unfRows>>
mvars == <<mpc, ret, cfg, mapleState, pvmStarted, pvmd, queue, unf, auxprog>>
wloc == <<wme, wtype, wtask, wargs, depth>>
wvars == <<wpc, wloc>>
cvars == <<toWorker, toMaster>>
hvars == <<hist, sentLog, recvLog>>
vars == <<mvars, outDir, wvars, cvars, hvars>>

Init ==
  /\ mpc = "args"
  /\ exitCode = Running
  /\ exitAt = "none"
  /\ task_type = 0
  /\ maple_single = FALSE
  /\ nodeCores = <<>>
  /\ dataFile = <<>>
  /\ mapleState = "orig"
  /\ pvmStarted = FALSE
  /\ pvmd = "none"
  /\ fpos = 0
  /\ itid = 0
  /\ loopi = 0
  /\ aux_str = NoArgs
  /\ unfPresent = FALSE
  /\ unfFile = "absent"
  /\ unfRows = <<>>
  /\ auxprog = {}
  /\ outDir = {}
  /\ toWorker = [s \in Slots |-> <<>>]
  /\ toMaster = [s \in Slots |-> <<>>]
  /\ wpc = [s \in Slots |-> "unspawned"]
  /\ wme = [s \in Slots |-> 0]
  /\ wtype = [s \in Slots |-> 0]
  /\ wtask = [s \in Slots |-> NoTask]
  /\ wargs = [s \in Slots |-> NoArgs]
  /\ depth = [s \in Slots |-> 0]
  /\ hist = [s \in Slots |-> <<>>]
  /\ sentLog = <<>>
  /\ recvLog = <<>>

(* ---------------------------- files of out_dir ------------------------ *)
\* outfile.txt, opened by the master
OutFileTxt == [kind |-> "outfile", id |-> NoTask]

\* <taskNumber>_out.txt and <taskNumber>_err.txt, opened by the child
TaskOutput(taskNumber) ==
  { [kind |-> "out", id |-> taskNumber], [kind |-> "err", id |-> taskNumber] }

\* the wrapper script parifile, sagefile or octavefile writes for a task
AuxprogFile(taskNumber) == [kind |-> "auxprog", id |-> taskNumber]

\* the name of a file in out_dir, as readdir returns it
DotTxt == <<".", "t", "x", "t">>

d_name(f) ==
  CASE f.kind = "outfile" -> <<"o", "u", "t", "f", "i", "l", "e">> \o DotTxt
    [] f.kind = "out" -> sprintf_d(f.id) \o <<"_", "o", "u", "t">> \o DotTxt
    [] f.kind = "err" -> sprintf_d(f.id) \o <<"_", "e", "r", "r">> \o DotTxt
    [] f.kind = "auxprog" ->
         <<"a", "u", "x", "p", "r", "o", "g", "-">> \o sprintf_d(f.id)

\* strstr(haystack, needle) != NULL
strstr(haystack, needle) ==
  \E i \in 1..(Len(haystack) - Len(needle) + 1) :
    SubSeq(haystack, i, i + Len(needle) - 1) = needle

\* (mutant of RemoveAuxprog) the test of the name inverted
RemoveAuxprogInverted(dir) ==
  { f \in dir : strstr(d_name(f), <<"a", "u", "x", "p", "r", "o", "g">>) }

\* the loop over readdir(dir) that removes what has "auxprog" in its name:
\* what it leaves of a set of files
RemoveAuxprog(dir) ==
  { f \in dir : ~strstr(d_name(f), <<"a", "u", "x", "p", "r", "o", "g">>) }

(* --------------------------- shared helpers ---------------------------- *)
\* pvm_halt(): the daemon goes down and takes every live PVM task with it
Killed(w) == IF w \in {"unspawned", "exited", "stopped"} THEN w ELSE "killed"

pvm_halt ==
  /\ pvmd' = "halted"
  /\ wpc' = [s \in Slots |-> Killed(wpc[s])]

\* return <code> from main
Return(code) ==
  /\ mpc' = "exit"
  /\ exitCode' = code
  /\ exitAt' = mpc

\* go on to the next position of main
Goto(next) ==
  /\ mpc' = next
  /\ UNCHANGED ret

maxConcurrentTasks == SumCores(nodeCores)

nTasks == Len(dataFile)

firstBatchSize ==
  IF nTasks < maxConcurrentTasks THEN nTasks ELSE maxConcurrentTasks

(* --------------------------- master: startup --------------------------- *)
\* sscanf of the five positional arguments
ReadArgs ==
  /\ mpc = "args"
  /\ \E ok \in BOOLEAN, tt \in TaskTypes, single \in BOOLEAN :
       IF ok
         THEN /\ Goto("maple")
              /\ task_type' = tt
              /\ maple_single' = single
         ELSE /\ Return(E_ARGS)
              /\ UNCHANGED <<task_type, maple_single>>
  /\ UNCHANGED <<outDir, nodeCores, dataFile, mapleState, pvmStarted, pvmd,
                 queue, unf, auxprog, wvars, cvars, hvars>>

\* mapleSingleCPU(inp_programFile), before the task type is checked
MapleSingle ==
  /\ mpc = "maple"
  /\ IF maple_single
       THEN \E ok \in BOOLEAN :
              IF ok
                THEN mapleState' = "rewritten" /\ Goto("tasktype")
                ELSE Return(E_MPL) /\ UNCHANGED mapleState
       ELSE Goto("tasktype") /\ UNCHANGED mapleState
  /\ UNCHANGED <<outDir, cfg, pvmStarted, pvmd, queue, unf, auxprog, wvars,
                 cvars, hvars>>

CheckTaskType ==
  /\ mpc = "tasktype"
  /\ IF task_type \notin 0..5
       THEN Return(E_WRONG_TASK)
       ELSE Goto("slavefile")
  /\ UNCHANGED <<outDir, cfg, mapleState, pvmStarted, pvmd, queue, unf,
                 auxprog, wvars, cvars, hvars>>

\* node_info.txt, when --create-slavefile was given
SlaveFile ==
  /\ mpc = "slavefile"
  /\ \E create_slave \in BOOLEAN, ok \in BOOLEAN :
       IF create_slave /\ ~ok
         THEN Return(E_OUTDIR)
         ELSE Goto("nodefile")
  /\ UNCHANGED <<outDir, cfg, mapleState, pvmStarted, pvmd, queue, unf,
                 auxprog, wvars, cvars, hvars>>

\* getLineCount(inp_nodes) and parseNodefile
NodeFile ==
  /\ mpc = "nodefile"
  /\ \E res \in {"nolines", "noopen", "noread", "ok"}, roster \in Rosters :
       CASE res = "nolines" -> Return(E_NODE_LINES) /\ UNCHANGED nodeCores
         [] res = "noopen" -> Return(E_NODE_OPEN) /\ UNCHANGED nodeCores
         [] res = "noread" -> Return(E_NODE_READ) /\ UNCHANGED nodeCores
         [] OTHER -> nodeCores' = roster /\ Goto("cwd")
  /\ UNCHANGED <<outDir, task_type, maple_single, dataFile, mapleState,
                 pvmStarted, pvmd, queue, unf, auxprog, wvars, cvars, hvars>>

\* getcwd, then the hostfile is written
Cwd ==
  /\ mpc = "cwd"
  /\ \E ok \in BOOLEAN : IF ok THEN Goto("pvmstart") ELSE Return(E_CWD)
  /\ UNCHANGED <<outDir, cfg, mapleState, pvmStarted, pvmd, queue, unf,
                 auxprog, wvars, cvars, hvars>>

\* while (pvm_start_pvmd(...) == PvmDupHost) { ++start_tries; pvm_halt();
\* rm; if (start_tries > 3) return E_PVM_DUP; } run on a daemon that answers
\* PvmDupHost `dups` times in a row: the value of start_tries when the loop
\* is left, and whether it is left by the return
RECURSIVE StartLoop(_, _)
StartLoop(dups, start_tries) ==
  IF dups = 0
    THEN [start_tries |-> start_tries, gaveUp |-> FALSE]
    ELSE IF start_tries + 1 > 3
           THEN [start_tries |-> start_tries + 1, gaveUp |-> TRUE]
           ELSE StartLoop(dups - 1, start_tries + 1)

\* the attempts to start the daemon (start_tries is not read after the loop)
StartPvmd ==
  /\ mpc = "pvmstart"
  /\ pvmStarted' = TRUE
  /\ \E dups \in 0..MaxDups :
       IF StartLoop(dups, 0).gaveUp
         THEN pvm_halt /\ Return(E_PVM_DUP)
         ELSE pvmd' = "running" /\ Goto("outfile") /\ UNCHANGED wpc
  /\ UNCHANGED <<outDir, cfg, mapleState, queue, unf, auxprog, wloc, cvars,
                 hvars>>

\* (mutant of StartAttempt) one more retry before giving up
StartAttemptOnceMore ==
  /\ mpc = "pvmstart"
  /\ pvmStarted' = TRUE
  /\ \E dup \in BOOLEAN :
       IF dup
         THEN /\ loopi' = loopi + 1
              /\ pvm_halt
              /\ IF loopi' > 4
                   THEN Return(E_PVM_DUP)
                   ELSE UNCHANGED <<mpc, ret>>
         ELSE /\ pvmd' = "running"
              /\ Goto("outfile")
              /\ UNCHANGED <<loopi, wpc>>
  /\ UNCHANGED <<outDir, cfg, mapleState, fpos, itid, aux_str, unf, auxprog,
                 wloc, cvars, hvars>>

\* one turn of the same loop, with loopi as start_tries: a call of
\* pvm_start_pvmd that answers PvmDupHost (dup) or not; after PvmDupHost
\* ++start_tries, pvm_halt, rm, and the return when start_tries > 3
StartAttempt ==
  /\ mpc = "pvmstart"
  /\ pvmStarted' = TRUE
  /\ \E dup \in BOOLEAN :
       IF dup
         THEN /\ loopi' = loopi + 1
              /\ pvm_halt
              /\ IF loopi' > 3
                   THEN Return(E_PVM_DUP)
                   ELSE UNCHANGED <<mpc, ret>>
         ELSE /\ pvmd' = "running"
              /\ Goto("outfile")
              /\ UNCHANGED <<loopi, wpc>>
  /\ UNCHANGED <<outDir, cfg, mapleState, fpos, itid, aux_str, unf, auxprog,
                 wloc, cvars, hvars>>

\* fopen of outfile.txt; pvm_mytid; pvm_parent: each failure halts and
\* returns (made: the files of out_dir the step leaves when it succeeds)
AfterStart(here, next, code, made) ==
  /\ mpc = here
  /\ \E ok \in BOOLEAN :
       IF ok
         THEN Goto(next) /\ outDir' = made /\ UNCHANGED <<pvmd, wpc>>
         ELSE pvm_halt /\ Return(code) /\ UNCHANGED outDir
  /\ UNCHANGED <<cfg, mapleState, pvmStarted, queue, unf, auxprog, wloc,
                 cvars, hvars>>

OpenOutFile ==
  AfterStart("outfile", "mytid", E_OUTFILE_OPEN, outDir \cup {OutFileTxt})

\* (mutant of MyTid) the failure of pvm_mytid returned with the code of
\* the parent check
MyTidWrongCode == AfterStart("mytid", "parent", E_PVM_PARENT, outDir)

MyTid == AfterStart("mytid", "parent", E_PVM_MYTID, outDir)

Parent == AfterStart("parent", "datalines", E_PVM_PARENT, outDir)

\* (mutant of CountTasks) the return on an unreadable data file without
\* the pvm_halt
CountTasksNoHalt ==
  /\ mpc = "datalines"
  /\ \E ok \in BOOLEAN, f \in DataFiles :
       IF ok
         THEN /\ dataFile' = f
              /\ Goto("spawn")
              /\ itid' = 0
         ELSE /\ Return(E_DATAFILE_LINES)
              /\ UNCHANGED <<dataFile, itid>>
  /\ UNCHANGED <<outDir, task_type, maple_single, nodeCores, mapleState,
                 pvmStarted, pvmd, wpc, fpos, loopi, aux_str, unf, auxprog,
                 wloc, cvars, hvars>>

\* maxConcurrentTasks, then nTasks = getLineCount(inp_dataFile)
CountTasks ==
  /\ mpc = "datalines"
  /\ \E ok \in BOOLEAN, f \in DataFiles :
       IF ok
         THEN /\ dataFile' = f
              /\ Goto("spawn")
              /\ itid' = 0
              /\ UNCHANGED <<pvmd, wpc>>
         ELSE /\ pvm_halt
              /\ Return(E_DATAFILE_LINES)
              /\ UNCHANGED <<dataFile, itid>>
  /\ UNCHANGED <<outDir, task_type, maple_single, nodeCores, mapleState,
                 pvmStarted, fpos, loopi, aux_str, unf, auxprog, wloc, cvars,
                 hvars>>

(* ------------------------ master: fleet and queue ---------------------- *)
\* one turn of the spawn loop: pvm_spawn on the node, then the greeting
SpawnWorker ==
  /\ mpc = "spawn"
  /\ itid < maxConcurrentTasks
  /\ \E ok \in BOOLEAN :
       IF ok
         THEN /\ wpc' = [wpc EXCEPT ![itid] = "greet"]
              /\ toWorker' = [toWorker EXCEPT ![itid] =
                   Append(@, [tag |-> MSG_GREETING, me |-> itid,
                              task_type |-> task_type])]
              /\ hist' = [hist EXCEPT ![itid] = Append(@, "G")]
              /\ itid' = itid + 1
              /\ UNCHANGED <<mpc, ret, pvmd>>
         ELSE /\ pvm_halt
              /\ Return(E_PVM_SPAWN)
              /\ UNCHANGED <<toWorker, hist, itid>>
  /\ UNCHANGED <<outDir, cfg, mapleState, pvmStarted, fpos, loopi, aux_str,
                 unf, auxprog, wloc, toMaster, sentLog, recvLog>>

\* all slaves created: open the data file, work_code = MSG_GREETING
SpawnDone ==
  /\ mpc = "spawn"
  /\ itid = maxConcurrentTasks
  /\ Goto("firstbatch")
  /\ loopi' = 0
  /\ fpos' = 0
  /\ UNCHANGED <<outDir, cfg, mapleState, pvmStarted, pvmd, itid, aux_str,
                 unf, auxprog, wvars, cvars, hvars>>

NeedsWrapper == task_type \in 3..5

\* (mutant of ReadLine) a read that never advances in the file
ReadLineRewound == dataFile[1]

\* fgets(buffer, BUFFER_SIZE, f_data): the next unread line
ReadLine == dataFile[fpos + 1]

\* read the next line of the data file and send it to slot s as work
\* (h: hist as it stands before the send; prep_ok: answer of parifile,
\* sagefile or octavefile).  Sets mpc, ret, pvmd, wpc, fpos, loopi, aux_str,
\* auxprog, toWorker, sentLog, hist.
Dispatch(s, h, prep_ok) ==
  LET buffer == ReadLine
      scan == sscanf_d(buffer)
      taskNumber == scan.value
      args == ExtractArgs(buffer, taskNumber)
  IN
  /\ fpos' = fpos + 1
  /\ IF scan.n # 1
       THEN /\ pvm_halt
            /\ Return(E_DATAFILE_FIRSTCOL)
            /\ hist' = h
            /\ UNCHANGED <<aux_str, auxprog, toWorker, sentLog, loopi>>
       ELSE /\ aux_str' = args
            /\ IF NeedsWrapper /\ ~prep_ok
                 THEN /\ Return(E_IO)
                      /\ hist' = h
                      /\ UNCHANGED <<auxprog, toWorker, sentLog, loopi, pvmd,
                                     wpc>>
                 ELSE /\ auxprog' = IF NeedsWrapper
                                      THEN auxprog \cup {taskNumber}
                                      ELSE auxprog
                      /\ toWorker' = [toWorker EXCEPT ![s] =
                           Append(@, [tag |-> MSG_WORK,
                                      work_code |-> MSG_GREETING,
                                      taskNumber |-> taskNumber,
                                      args |-> args])]
                      /\ sentLog' = Append(sentLog,
                           [slot |-> s, id |-> taskNumber, args |-> args])
                      /\ hist' = [h EXCEPT ![s] = Append(@, "W")]
                      /\ loopi' = loopi + 1
                      /\ UNCHANGED <<mpc, ret, pvmd, wpc>>

\* (mutant of FirstBatch) the slots are served from the last one down
FirstBatchFromTop ==
  /\ mpc = "firstbatch"
  /\ loopi < firstBatchSize
  /\ IF fpos < Len(dataFile)
       THEN \E prep_ok \in BOOLEAN :
              Dispatch(maxConcurrentTasks - 1 - loopi, hist, prep_ok)
       ELSE /\ loopi' = loopi + 1
            /\ UNCHANGED <<mpc, ret, pvmd, wpc, fpos, aux_str, auxprog,
                           toWorker, sentLog, hist>>
  /\ UNCHANGED <<outDir, cfg, mapleState, pvmStarted, itid, unf, wloc,
                 toMaster, recvLog>>

\* one turn of the first-batch loop
FirstBatch ==
  /\ mpc = "firstbatch"
  /\ loopi < firstBatchSize
  /\ IF fpos < Len(dataFile)
       THEN \E prep_ok \in BOOLEAN : Dispatch(loopi, hist, prep_ok)
       ELSE /\ loopi' = loopi + 1
            /\ UNCHANGED <<mpc, ret, pvmd, wpc, fpos, aux_str, auxprog,
                           toWorker, sentLog, hist>>
  /\ UNCHANGED <<outDir, cfg, mapleState, pvmStarted, itid, unf, wloc,
                 toMaster, recvLog>>

\* first batch sent: create unfinished_tasks.txt, enter the next loop
FirstBatchDone ==
  /\ mpc = "firstbatch"
  /\ loopi = firstBatchSize
  /\ unfFile' = "present"
  /\ unfRows' = <<>>
  /\ unfPresent' = FALSE
  /\ IF nTasks > maxConcurrentTasks
       THEN Goto("steady") /\ loopi' = maxConcurrentTasks
       ELSE Goto("drain") /\ loopi' = 0
  /\ UNCHANGED <<outDir, cfg, mapleState, pvmStarted, pvmd, fpos, itid,
                 aux_str, auxprog, wvars, cvars, hvars>>

\* what the master logs for a status: the if / else-if chain on status
Classify(status) ==
  IF status = ST_MEM_ERR THEN "ERROR_MEM"
  ELSE IF status = ST_FORK_ERR THEN "ERROR_FORK"
  ELSE IF status = ST_TASK_KILLED THEN "ERROR_KILLED"
  ELSE "TASK_COMPLETED"

\* the branches that append a row to unfinished_tasks.txt
WritesRow(status) ==
  \/ status = ST_MEM_ERR
  \/ status = ST_FORK_ERR
  \/ status = ST_TASK_KILLED

\* (mutant of UnpackedSlot) the reporting slot is ignored, slot 0 is used
UnpackedSlotZero(m) == 0

\* pvm_upkint(&itid, 1, 1): the slot index the result carries
UnpackedSlot(m) == m.me

\* pvm_recv(-1, MSG_RESULT) of the oldest result of slot s, unpack, classify,
\* log.  pvm_upkstr finds no string in the worker's message and leaves
\* aux_str as it was.  Sets itid, toMaster, recvLog, unf.
ReceiveResult(s) ==
  LET m == Head(toMaster[s]) IN
  /\ toMaster[s] # <<>>
  /\ toMaster' = [toMaster EXCEPT ![s] = Tail(@)]
  /\ itid' = UnpackedSlot(m)
  /\ recvLog' = Append(recvLog,
       [slot |-> UnpackedSlot(m), task |-> m.taskNumber, status |-> m.state,
        log |-> Classify(m.state), row |-> WritesRow(m.state),
        truth |-> m.truth])
  /\ IF WritesRow(m.state)
       THEN /\ unfRows' = Append(unfRows, <<m.taskNumber, aux_str>>)
            /\ unfFile' = "present"
            /\ unfPresent' = TRUE
       ELSE UNCHANGED unf

\* (mutant of Steady) the next line goes to the slots in turn, whichever
\* slot has reported
SteadyInTurn ==
  /\ mpc = "steady"
  /\ loopi < nTasks
  /\ \E s \in Slots :
       /\ ReceiveResult(s)
       /\ LET h == [hist EXCEPT ![s] = Append(@, "R")] IN
          IF fpos < Len(dataFile)
            THEN \E prep_ok \in BOOLEAN :
                   Dispatch(loopi % maxConcurrentTasks, h, prep_ok)
            ELSE /\ loopi' = loopi + 1
                 /\ hist' = h
                 /\ UNCHANGED <<mpc, ret, pvmd, wpc, fpos, aux_str, auxprog,
                                toWorker, sentLog>>
  /\ UNCHANGED <<outDir, cfg, mapleState, pvmStarted, wloc>>

\* one turn of the steady-state loop: a result, then the next line to the
\* slot the result names
Steady ==
  /\ mpc = "steady"
  /\ loopi < nTasks
  /\ \E s \in Slots :
       /\ ReceiveResult(s)
       /\ LET h == [hist EXCEPT ![s] = Append(@, "R")] IN
          IF fpos < Len(dataFile)
            THEN \E prep_ok \in BOOLEAN : Dispatch(itid', h, prep_ok)
            ELSE /\ loopi' = loopi + 1
                 /\ hist' = h
                 /\ UNCHANGED <<mpc, ret, pvmd, wpc, fpos, aux_str, auxprog,
                                toWorker, sentLog>>
  /\ UNCHANGED <<outDir, cfg, mapleState, pvmStarted, wloc>>

SteadyDone ==
  /\ mpc = "steady"
  /\ loopi = nTasks
  /\ Goto("drain")
  /\ loopi' = 0
  /\ UNCHANGED <<outDir, cfg, mapleState, pvmStarted, pvmd, fpos, itid,
                 aux_str, unf, auxprog, wvars, cvars, hvars>>

\* (mutant of Drain) the stops go to the slots in loop order
DrainInLoopOrder ==
  /\ mpc = "drain"
  /\ loopi < firstBatchSize
  /\ \E s \in Slots :
       /\ ReceiveResult(s)
       /\ LET h == [hist EXCEPT ![s] = Append(@, "R")] IN
          /\ toWorker' = [toWorker EXCEPT ![loopi] =
               Append(@, [tag |-> MSG_STOP, work_code |-> MSG_STOP])]
          /\ hist' = [h EXCEPT ![loopi] = Append(@, "S")]
  /\ loopi' = loopi + 1
  /\ UNCHANGED <<outDir, mpc, ret, cfg, mapleState, pvmStarted, pvmd, fpos,
                 aux_str, auxprog, wvars, sentLog>>

\* one turn of the drain loop: a result, then the stop to the slot it names
Drain ==
  /\ mpc = "drain"
  /\ loopi < firstBatchSize
  /\ \E s \in Slots :
       /\ ReceiveResult(s)
       /\ LET h == [hist EXCEPT ![s] = Append(@, "R")] IN
          /\ toWorker' = [toWorker EXCEPT ![itid'] =
               Append(@, [tag |-> MSG_STOP, work_code |-> MSG_STOP])]
          /\ hist' = [h EXCEPT ![itid'] = Append(@, "S")]
  /\ loopi' = loopi + 1
  /\ UNCHANGED <<outDir, mpc, ret, cfg, mapleState, pvmStarted, pvmd, fpos,
                 aux_str, auxprog, wvars, sentLog>>

\* final message, clean-up, pvm_halt, return 0
Shutdown ==
  /\ mpc = "drain"
  /\ loopi = firstBatchSize
  /\ mapleState' = IF maple_single THEN "restored" ELSE mapleState
  /\ auxprog' = IF NeedsWrapper
                  THEN { i \in auxprog : AuxprogFile(i) \in
                           RemoveAuxprog({AuxprogFile(i)}) }
                  ELSE auxprog
  /\ outDir' = IF NeedsWrapper THEN RemoveAuxprog(outDir) ELSE outDir
  /\ unfFile' = IF ~unfPresent THEN "absent" ELSE unfFile
  /\ pvm_halt
  /\ Return(0)
  /\ UNCHANGED <<cfg, pvmStarted, fpos, itid, loopi, aux_str, unfPresent,
                 unfRows, wloc, cvars, hvars>>

(* ------------------------------- worker -------------------------------- *)
\* pvm_recv(myparent, tag): the oldest waiting message that carries the tag
HasMsg(q, tag) == \E i \in 1..Len(q) : q[i].tag = tag

FirstMsg(q, tag) ==
  CHOOSE i \in 1..Len(q) :
    /\ q[i].tag = tag
    /\ \A j \in 1..(i - 1) : q[j].tag # tag

RemoveAt(q, i) == SubSeq(q, 1, i - 1) \o SubSeq(q, i + 1, Len(q))

\* be greeted by the master
WGreeting(s) ==
  /\ wpc[s] = "greet"
  /\ HasMsg(toWorker[s], MSG_GREETING)
  /\ LET i == FirstMsg(toWorker[s], MSG_GREETING)
         m == toWorker[s][i] IN
     /\ wme' = [wme EXCEPT ![s] = m.me]
     /\ wtype' = [wtype EXCEPT ![s] = m.task_type]
     /\ toWorker' = [toWorker EXCEPT ![s] = RemoveAt(@, i)]
  /\ wpc' = [wpc EXCEPT ![s] = "gate"]
  /\ UNCHANGED <<outDir, wtask, wargs, depth, toMaster, mvars, hvars>>

\* memcheck(memcheck_flag, max_task_size): on 1 the worker sleeps 60 s and
\* starts the loop again (it is back at this check); on 0 it goes on to
\* pvm_recv
WMemcheck(s) ==
  /\ wpc[s] = "gate"
  /\ \E defer \in BOOLEAN :
       wpc' = [wpc EXCEPT ![s] = IF defer THEN "gate" ELSE "recv"]
  /\ UNCHANGED <<outDir, wloc, cvars, mvars, hvars>>

\* (mutant of WReceive) the message is taken without waiting for the gate
WReceiveAtGate(s) ==
  /\ wpc[s] \in {"gate", "recv"}
  /\ HasMsg(toWorker[s], MSG_WORK)
  /\ LET i == FirstMsg(toWorker[s], MSG_WORK)
         m == toWorker[s][i] IN
     /\ toWorker' = [toWorker EXCEPT ![s] = RemoveAt(@, i)]
     /\ IF m.work_code = MSG_STOP
          THEN /\ wpc' = [wpc EXCEPT ![s] = "stopped"]
               /\ UNCHANGED <<wtask, wargs>>
          ELSE /\ wpc' = [wpc EXCEPT ![s] = "fork"]
               /\ wtask' = [wtask EXCEPT ![s] = m.taskNumber]
               /\ wargs' = [wargs EXCEPT ![s] = m.args]
  /\ UNCHANGED <<outDir, wme, wtype, depth, toMaster, mvars, hvars>>

\* pvm_recv(myparent, MSG_WORK), then break on work_code == MSG_STOP or
\* unpack the task
WReceive(s) ==
  /\ wpc[s] = "recv"
  /\ HasMsg(toWorker[s], MSG_WORK)
  /\ LET i == FirstMsg(toWorker[s], MSG_WORK)
         m == toWorker[s][i] IN
     /\ toWorker' = [toWorker EXCEPT ![s] = RemoveAt(@, i)]
     /\ IF m.work_code = MSG_STOP
          THEN /\ wpc' = [wpc EXCEPT ![s] = "stopped"]
               /\ UNCHANGED <<wtask, wargs>>
          ELSE /\ wpc' = [wpc EXCEPT ![s] = "fork"]
               /\ wtask' = [wtask EXCEPT ![s] = m.taskNumber]
               /\ wargs' = [wargs EXCEPT ![s] = m.args]
  /\ UNCHANGED <<outDir, wme, wtype, depth, toMaster, mvars, hvars>>

\* (mutant of Result) me packed in the place of taskNumber
ResultWithSlotAsTask(s, state, truth) ==
  [me |-> wme[s], taskNumber |-> wme[s], state |-> state, truth |-> truth]

\* the result message: me, taskNumber, state (truth: what really happened
\* to the task, a history field no process reads)
Result(s, state, truth) ==
  [me |-> wme[s], taskNumber |-> wtask[s], state |-> state, truth |-> truth]

\* fork(): on failure report state 1 and exit(1); else the parent waits
\* for the child, and the child opens <taskNumber>_out.txt and _err.txt and
\* execs the program (task types 0, 1, 2) or leaves the if (pid == 0) block
\* without exec (any other type)
WFork(s) ==
  /\ wpc[s] = "fork"
  /\ \E ok \in BOOLEAN :
       IF ok
         THEN /\ wpc' = [wpc EXCEPT ![s] =
                   IF wtype[s] \in 0..2 THEN "wait" ELSE "fall"]
              /\ outDir' = outDir \cup TaskOutput(wtask[s])
              /\ UNCHANGED toMaster
         ELSE /\ toMaster' = [toMaster EXCEPT ![s] =
                   Append(@, Result(s, 1, "forkfail"))]
              /\ wpc' = [wpc EXCEPT ![s] = "exited"]
              /\ UNCHANGED outDir
  /\ UNCHANGED <<wloc, toWorker, mvars, hvars>>

\* (mutant of WChildEnds) the result is sent twice
WChildEndsTwice(s) ==
  /\ wpc[s] = "wait"
  /\ \E how \in {"ok", "killed"} :
       toMaster' = [toMaster EXCEPT ![s] =
         Append(Append(@, Result(s, 0, how)), Result(s, 0, how))]
  /\ wpc' = [wpc EXCEPT ![s] = "gate"]
  /\ UNCHANGED <<outDir, wloc, toWorker, mvars, hvars>>

\* the child ends, normally ("ok") or not ("killed": a signal, a non-zero
\* status); waitid returns in the parent, which reports state 0
WChildEnds(s) ==
  /\ wpc[s] = "wait"
  /\ \E how \in {"ok", "killed"} :
       toMaster' = [toMaster EXCEPT ![s] = Append(@, Result(s, 0, how))]
  /\ wpc' = [wpc EXCEPT ![s] = "gate"]
  /\ UNCHANGED <<outDir, wloc, toWorker, mvars, hvars>>

\* a child that did not exec runs the code after the block itself: its
\* waitid has no child to wait for, it reports state 0 over the PVM
\* connection it inherited and goes on as the worker of the slot, while
\* the process that forked it stays in waitid.  (When the process that
\* acts for the slot exits, it has called pvm_exit on that connection:
\* what the processes waiting behind it send afterwards reaches nobody.)
WChildFallsThrough(s) ==
  /\ wpc[s] = "fall"
  /\ depth' = [depth EXCEPT ![s] = @ + 1]
  /\ toMaster' = [toMaster EXCEPT ![s] = Append(@, Result(s, 0, "notrun"))]
  /\ wpc' = [wpc EXCEPT ![s] = "gate"]
  /\ UNCHANGED <<outDir, wme, wtype, wtask, wargs, toWorker, mvars, hvars>>

(* ---------------------------- specification ---------------------------- *)
Worker(s) ==
  \/ WGreeting(s)
  \/ WMemcheck(s)
  \/ WReceive(s)
  \/ WFork(s)
  \/ WChildEnds(s)
  \/ WChildFallsThrough(s)

Master ==
  \/ ReadArgs
  \/ MapleSingle
  \/ CheckTaskType
  \/ SlaveFile
  \/ NodeFile
  \/ Cwd
  \/ StartPvmd
  \/ OpenOutFile
  \/ MyTid
  \/ Parent
  \/ CountTasks
  \/ SpawnWorker
  \/ SpawnDone
  \/ FirstBatch
  \/ FirstBatchDone
  \/ Steady
  \/ SteadyDone
  \/ Drain
  \/ Shutdown

Next == Master \/ \E s \in Slots : Worker(s)

Spec == Init /\ [][Next]_vars

\* the start of main up to the daemon, with the attempts to start it taken
\* one by one
NextStart ==
  \/ ReadArgs
  \/ MapleSingle
  \/ CheckTaskType
  \/ SlaveFile
  \/ NodeFile
  \/ Cwd
  \/ StartAttempt

SpecStart == Init /\ [][NextStart]_vars

(* ------------------------ notions the claims use ----------------------- *)
NormalExit == mpc = "exit" /\ exitCode = 0

\* the master is in pvm_recv(-1, MSG_RESULT)
MasterWaits ==
  \/ mpc = "steady" /\ loopi < nTasks
  \/ mpc = "drain" /\ loopi < firstBatchSize

\* slot s has sent a result the master has not received, or can still send one
CanStillReport(s) ==
  \/ toMaster[s] # <<>>
  \/ wpc[s] \in {"fork", "wait", "fall"}
  \/ wpc[s] \in {"greet", "gate", "recv"} /\ HasMsg(toWorker[s], MSG_WORK)

\* the master waits for a result that no worker will ever send
MasterStuck == MasterWaits /\ \A s \in Slots : ~CanStillReport(s)

ResultsFor(id) == { j \in 1..Len(recvLog) : recvLog[j].task = id }

Count(h, e) == Cardinality({ i \in 1..Len(h) : h[i] = e })

UsedSlots == 0..(maxConcurrentTasks - 1)

WorksTo(s) == { k \in 1..Len(sentLog) : sentLog[k].slot = s }

LastWorkId(s) ==
  sentLog[CHOOSE k \in WorksTo(s) : \A l \in WorksTo(s) : l <= k].id

(* ------------------------------- claims -------------------------------- *)
\* C1 (as claimed): when the run is over (the master has returned 0, or it
\* waits for a result that cannot come any more) every work message the
\* master sent has exactly one received result.
C1_EveryDispatchedTaskAnswered ==
  (NormalExit \/ MasterStuck) =>
    \A k \in 1..Len(sentLog) : Cardinality(ResultsFor(sentLog[k].id)) = 1

\* C2 (as claimed): after a complete run every slot of the roster has been
\* sent exactly one greeting and exactly one stop, and as many work messages
\* as results were received from it.
C2_OneGreetingOneStopPerSlot ==
  NormalExit =>
    \A s \in UsedSlots :
      /\ Count(hist[s], "G") = 1
      /\ Count(hist[s], "S") = 1
      /\ Count(hist[s], "W") = Count(hist[s], "R")

\* C3: the k-th work message sent carries the id and the arguments the
\* master reads from the k-th line of the data file, and a complete run has
\* sent exactly nTasks of them.
C3_DispatchInFileOrder ==
  /\ \A k \in 1..Len(sentLog) :
       /\ k <= nTasks
       /\ sentLog[k].id = sscanf_d(dataFile[k]).value
       /\ sentLog[k].args = ExtractArgs(dataFile[k], sentLog[k].id)
  /\ NormalExit => Len(sentLog) = nTasks

C3_Witness ==
  /\ NormalExit
  /\ maxConcurrentTasks = 2
  /\ Len(sentLog) = 3

\* C4 (as claimed): at the end of a run the rows of unfinished_tasks.txt are
\* the tasks of the received results whose status is not OK (0), one row
\* each, in the order received.
NonOkResults == SelectSeq(recvLog, LAMBDA r : r.status # 0)

C4_RowsAreTheNonOkResults ==
  NormalExit =>
    /\ Len(unfRows) = Len(NonOkResults)
    /\ \A i \in 1..Len(unfRows) : unfRows[i][1] = NonOkResults[i].task

\* C5 (as claimed): every received result is logged either as
\* TASK_COMPLETED or as an ERROR with a row in unfinished_tasks.txt, never
\* both, never neither, and a task that failed is not logged as completed.
C5_CompletedOrErrorRow ==
  \A j \in 1..Len(recvLog) :
    /\ (recvLog[j].log = "TASK_COMPLETED") # recvLog[j].row
    /\ recvLog[j].log = "TASK_COMPLETED" =>
         recvLog[j].truth \notin {"forkfail", "killed"}

\* C6: every result on its way from slot s to the master (hence every result
\* the master receives) names slot s and carries the task id of the latest
\* work message the master sent to slot s.
C6_ResultAnswersLatestWork ==
  \A s \in Slots : \A i \in 1..Len(toMaster[s]) :
    /\ toMaster[s][i].me = s
    /\ WorksTo(s) # {}
    /\ toMaster[s][i].taskNumber = LastWorkId(s)

C6_Witness ==
  \E s \in Slots : toMaster[s] # <<>> /\ Cardinality(WorksTo(s)) >= 2

\* C7: per slot the master's traffic is a greeting, then work and result
\* alternating and starting with a work, then at most one stop, which
\* follows a result and is followed by nothing.
WellOrdered(h) ==
  \A i \in 1..Len(h) :
    /\ i = 1 <=> h[i] = "G"
    /\ h[i] = "W" => h[i - 1] \in {"G", "R"}
    /\ h[i] = "R" => h[i - 1] = "W"
    /\ h[i] = "S" => h[i - 1] = "R" /\ i = Len(h)

C7_GreetingWorkResultStop == \A s \in Slots : WellOrdered(hist[s])

C7_Witness ==
  \E s \in Slots : hist[s] = <<"G", "W", "R", "W", "R", "S">>

\* C8 (as claimed): the master never ends up waiting for a result that
\* cannot come, and when it has returned 0 every task that failed (fork
\* failure, child killed) has a row in unfinished_tasks.txt.
C8_FailuresDoNotStopTheRun ==
  /\ ~MasterStuck
  /\ NormalExit =>
       \A j \in 1..Len(recvLog) :
         recvLog[j].truth \in {"forkfail", "killed"} =>
           \E i \in 1..Len(unfRows) : unfRows[i][1] = recvLog[j].task

\* C9 (as claimed): when main returns an input-error code, pvm_start_pvmd
\* has not been called and no worker has been spawned.
EarlyInputErrors ==
  {E_ARGS, E_WRONG_TASK, E_OUTDIR, E_NODE_LINES, E_NODE_OPEN, E_NODE_READ}

DataFileErrors == {E_DATAFILE_LINES, E_DATAFILE_FIRSTCOL}

NothingStarted ==
  /\ ~pvmStarted
  /\ pvmd = "none"
  /\ \A s \in Slots : wpc[s] = "unspawned"

C9_InputErrorsBeforeTransport ==
  exitCode \in EarlyInputErrors \cup DataFileErrors => NothingStarted

\* C9 (amended): the codes for the arguments, the task class, the output
\* directory and the node file are returned before the daemon is started
\* and before any worker is spawned; the two data-file codes are returned
\* after the daemon was started, and the master has halted it by then.
C9_InputErrorsAmended ==
  /\ exitCode \in EarlyInputErrors => NothingStarted
  /\ exitCode \in DataFileErrors => pvmStarted /\ pvmd = "halted"

C9_Witness ==
  /\ exitCode = E_DATAFILE_FIRSTCOL
  /\ \E s \in Slots : wpc[s] = "killed"
  /\ sentLog # <<>>

\* C10: when main returns a transport-error code the daemon has been
\* halted, and each of the four failures returns its own code.
TransportErrors == {E_PVM_MYTID, E_PVM_PARENT, E_PVM_SPAWN, E_PVM_DUP}

C10_TransportErrorsHalt ==
  /\ exitCode \in TransportErrors => pvmd = "halted"
  /\ exitAt = "pvmstart" <=> exitCode = E_PVM_DUP
  /\ exitAt = "mytid" <=> exitCode = E_PVM_MYTID
  /\ exitAt = "parent" <=> exitCode = E_PVM_PARENT
  /\ exitAt = "spawn" <=> exitCode = E_PVM_SPAWN

C10_Witness ==
  /\ exitCode = E_PVM_SPAWN
  /\ \E s \in Slots : wpc[s] = "killed"

\* the rest of a line, as the data-file format defines it: the line without
\* its first field, the comma after it and the newline at its end
RECURSIVE AfterFirstComma(_)
AfterFirstComma(t) ==
  IF t = <<>> THEN <<>>
  ELSE IF Head(t) = "," THEN Tail(t)
  ELSE AfterFirstComma(Tail(t))

WithoutNewline(t) ==
  IF t # <<>> /\ t[Len(t)] = "\n" THEN SubSeq(t, 1, Len(t) - 1) ELSE t

RestOfLine(line) == AfterFirstComma(WithoutNewline(line))

\* C11 (as claimed): the arguments of the k-th work message are the rest of
\* the k-th line, and the arguments a worker holds are the rest of the line
\* of the task it holds.
C11_ArgsAreRestOfLine ==
  /\ \A k \in 1..Len(sentLog) : sentLog[k].args = RestOfLine(dataFile[k])
  /\ \A s \in Slots : \A k \in 1..Len(sentLog) :
       (wtask[s] # NoTask /\ sentLog[k].id = wtask[s]) =>
         wargs[s] = RestOfLine(dataFile[k])

\* C12 (as claimed): after a complete run the number of lines of the data
\* file is the number of <id>_out.txt files plus the number of rows written
\* for a status MEM_ERR or FORK_ERR.
OutTxtFiles == { f \in outDir : f.kind = "out" }

NotStartedRows ==
  { j \in 1..Len(recvLog) :
      recvLog[j].row /\ recvLog[j].status \in {ST_MEM_ERR, ST_FORK_ERR} }

C12_LinesAreOutFilesPlusRows ==
  NormalExit =>
    nTasks = Cardinality(OutTxtFiles) + Cardinality(NotStartedRows)

\* C13 (as claimed): after a normal exit unfinished_tasks.txt exists if and
\* only if some result received during the run had a status other than OK.
C13_UnfinishedFileIffNonOk ==
  NormalExit => (unfFile = "present" <=> NonOkResults # <<>>)

\* C14: the step that ends a complete run removes every wrapper script
\* when the task type is 3, 4 or 5 and none otherwise, leaves outfile.txt
\* and the output files of the tasks in place, and removes
\* unfinished_tasks.txt only when it has no row.
C14_OnlyAuxprogRemoved ==
  [][(mpc = "drain" /\ mpc' = "exit") =>
       /\ auxprog' = IF NeedsWrapper THEN {} ELSE auxprog
       /\ outDir' = outDir
       /\ OutFileTxt \in outDir'
       /\ unfFile' # unfFile => unfRows = <<>>]_vars

C14_Witness ==
  /\ NormalExit
  /\ NeedsWrapper
  /\ Len(sentLog) = MaxTasks
  /\ Cardinality(OutTxtFiles) = MaxTasks

\* C15: every work message after the first batch goes to the slot of a
\* result the master has received, the j-th of them to the slot of the j-th
\* result, and is sent in the step that receives that result: with each
\* result received while lines remain exactly one work message is sent.
C15_SteadyDispatchToReporter ==
  /\ \A k \in 1..Len(sentLog) :
       k > firstBatchSize =>
         /\ k - firstBatchSize <= Len(recvLog)
         /\ sentLog[k].slot = recvLog[k - firstBatchSize].slot
  /\ mpc = "steady" =>
       Len(sentLog) = firstBatchSize + Len(recvLog)

C15_Witness ==
  /\ maxConcurrentTasks = 2
  /\ Len(sentLog) = 3
  /\ recvLog[1].slot = 1
  /\ sentLog[3].slot = 1

\* C16: the k-th work message of the first batch (k = 1..firstBatchSize)
\* goes to slot k - 1; no result is received before all of them are sent;
\* once the first batch is over all of them have been sent; and no slot
\* with an index of firstBatchSize or more is ever sent work.
C16_FirstBatchSlotBySlot ==
  /\ \A k \in 1..Len(sentLog) :
       /\ k <= firstBatchSize => sentLog[k].slot = k - 1
       /\ sentLog[k].slot < firstBatchSize
  /\ recvLog # <<>> => Len(sentLog) >= firstBatchSize
  /\ mpc \in {"steady", "drain"} => Len(sentLog) >= firstBatchSize
  /\ \A s \in Slots : s >= firstBatchSize => Count(hist[s], "W") = 0

C16_Witness ==
  /\ NormalExit
  /\ nTasks = 2
  /\ maxConcurrentTasks = 3
  /\ Len(recvLog) = 2
  /\ hist[2] = <<"G">>

\* C17: a stop is sent only in the drain, when every line of the data file
\* has been dispatched; the stops sent are as many as the results received
\* since the last dispatch, at most firstBatchSize; a slot is sent at most
\* one stop, right after a result of that slot and with nothing after it;
\* and when the run is complete the master has received firstBatchSize
\* results in the drain and every slot that was sent work has its stop.
Stops == { <<s, i>> \in Slots \X (1..(2 * MaxTasks + 2)) :
             i <= Len(hist[s]) /\ hist[s][i] = "S" }

C17_StopsOnlyInDrain ==
  /\ Stops # {} =>
       /\ mpc = "drain" \/ exitAt = "drain"
       /\ Len(sentLog) = nTasks
  /\ (mpc = "drain" \/ exitAt = "drain") =>
       /\ Cardinality(Stops) = Len(recvLog) - (nTasks - firstBatchSize)
       /\ Cardinality(Stops) <= firstBatchSize
  /\ \A s \in Slots :
       /\ Count(hist[s], "S") <= 1
       /\ \A i \in 1..Len(hist[s]) :
            hist[s][i] = "S" => i = Len(hist[s]) /\ hist[s][i - 1] = "R"
  /\ NormalExit =>
       /\ Cardinality(Stops) = firstBatchSize
       /\ \A s \in Slots : Count(hist[s], "W") > 0 => Count(hist[s], "S") = 1

C17_Witness ==
  /\ NormalExit
  /\ nTasks = 3
  /\ hist[0] = <<"G", "W", "R", "S">>
  /\ hist[1] = <<"G", "W", "R", "W", "R", "S">>

\* C18 (as claimed): a worker that is at its receive between two tasks, with
\* a stop of the master waiting for it, can receive that stop.
StopWaits(s) == HasMsg(toWorker[s], MSG_STOP)

C18_StopIsReceived ==
  \A s \in Slots :
    (wpc[s] = "recv" /\ StopWaits(s)) => HasMsg(toWorker[s], MSG_WORK)

\* C19 (as claimed): the result a worker sends when fork fails carries the
\* status FORK_ERR, and the master logs it as a fork error and writes a row
\* for the task.
C19_ForkFailureReported ==
  /\ \A s \in Slots : \A i \in 1..Len(toMaster[s]) :
       toMaster[s][i].truth = "forkfail" =>
         toMaster[s][i].state = ST_FORK_ERR
  /\ \A j \in 1..Len(recvLog) :
       recvLog[j].truth = "forkfail" =>
         recvLog[j].log = "ERROR_FORK" /\ recvLog[j].row

\* C20 (as claimed): for a task whose child was created and has ended, the
\* worker reports TASK_KILLED when the child ended abnormally, and OK only
\* when it exited normally.
ChildEnded(m) == m.truth \in {"ok", "killed"}

C20_KilledChildReported ==
  \A s \in Slots : \A i \in 1..Len(toMaster[s]) :
    ChildEnded(toMaster[s][i]) =>
      /\ toMaster[s][i].truth = "killed" =>
           toMaster[s][i].state = ST_TASK_KILLED
      /\ toMaster[s][i].state = 0 => toMaster[s][i].truth = "ok"

\* C21 (as claimed): when a worker is at its memory gate and a task waits for
\* it, one of the outcomes of the gate (the rejection) is a result for that
\* task with the status MEM_ERR.
NextWorkId(s) == toWorker[s][FirstMsg(toWorker[s], MSG_WORK)].taskNumber

SendsMemErr(s) ==
  \E i \in 1..Len(toMaster'[s]) :
    /\ toMaster'[s][i].state = ST_MEM_ERR
    /\ toMaster'[s][i].taskNumber = NextWorkId(s)

C21_GateRejectionYieldsMemErr ==
  \A s \in Slots :
    (wpc[s] = "gate" /\ HasMsg(toWorker[s], MSG_WORK)) =>
      ENABLED (WMemcheck(s) /\ SendsMemErr(s))

\* C22: a worker takes a work or stop message only in pvm_recv, which it
\* enters only from a gate check that accepted; while it is at the gate
\* (not yet checked, or told to defer) it takes no message and sends no
\* result, whatever waits for it.
Pending(q) == Cardinality({ i \in 1..Len(q) : q[i].tag # MSG_GREETING })

C22_GateBeforeReceive ==
  [][\A s \in Slots :
       /\ Pending(toWorker'[s]) < Pending(toWorker[s]) => wpc[s] = "recv"
       /\ (wpc'[s] = "recv" /\ wpc[s] # "recv") => wpc[s] = "gate"
       /\ wpc[s] = "gate" =>
            /\ Len(toWorker'[s]) >= Len(toWorker[s])
            /\ Len(toMaster'[s]) <= Len(toMaster[s])
            /\ wpc'[s] \in {"gate", "recv", "killed"}]_vars

C22_Witness ==
  \E s \in Slots :
    /\ wpc[s] = "gate"
    /\ HasMsg(toWorker[s], MSG_WORK)
    /\ Cardinality(WorksTo(s)) = 2

\* C23 (under SpecStart): pvm_start_pvmd is called at most 4 times; after
\* every call that answered duplicate host the daemon has been halted
\* before the next call; the master returns the duplicate-host code exactly
\* when 4 calls in a row answered duplicate host, and goes on to open the
\* output file at the first call that does not.  StartLoop, the loop taken
\* as one step, gives the same outcome for the same answers.
StartCalls == loopi + (IF pvmd = "running" THEN 1 ELSE 0)

C23_AtMostFourStarts ==
  /\ StartCalls <= 4
  /\ (mpc = "pvmstart" /\ loopi > 0) => pvmd = "halted" /\ loopi <= 3
  /\ exitCode = E_PVM_DUP <=> loopi = 4
  /\ exitCode = E_PVM_DUP => pvmd = "halted" /\ exitAt = "pvmstart"
  /\ pvmd = "running" <=> mpc = "outfile"
  /\ pvmStarted =>
       StartLoop(loopi, 0) =
         [start_tries |-> loopi, gaveUp |-> exitCode = E_PVM_DUP]

C23_Witness ==
  /\ exitCode = E_PVM_DUP
  /\ loopi = 4
  /\ pvmd = "halted"

\* C24 (as claimed): every result a worker sends carries the arguments of
\* the task it reports, and every row of unfinished_tasks.txt holds the
\* arguments that were dispatched with the task id of the row.
DispatchedArgs(id) ==
  { sentLog[k].args : k \in { l \in 1..Len(sentLog) : sentLog[l].id = id } }

C24_ResultCarriesArgs ==
  /\ \A s \in Slots : \A i \in 1..Len(toMaster[s]) :
       /\ "raw_args" \in DOMAIN toMaster[s][i]
       /\ toMaster[s][i].raw_args \in DispatchedArgs(toMaster[s][i].taskNumber)
  /\ \A i \in 1..Len(unfRows) : unfRows[i][2] \in DispatchedArgs(unfRows[i][1])

\* C25 (as claimed): no child of a worker carries on as the worker, and no
\* result reports a task for which no program was run.
C25_ChildNeverCarriesOn ==
  /\ \A s \in Slots : depth[s] = 0
  /\ \A s \in Slots : \A i \in 1..Len(toMaster[s]) :
       toMaster[s][i].truth # "notrun"

\* C26 (as claimed): no work message waits for a worker that has
\* terminated (a worker terminates with an empty queue, so such a message
\* was sent after it had gone).
C26_NoWorkToTerminatedWorker ==
  \A s \in Slots : wpc[s] = "exited" => ~HasMsg(toWorker[s], MSG_WORK)

\* C27: when the master has returned 0 no result is on its way to it (as
\* many results were received as were sent), and in no step does a slot
\* that has been sent its stop send a result.
C27_NoResultLeftBehind ==
  [][/\ NormalExit' => \A s \in Slots : toMaster'[s] = <<>>
     /\ \A s \in Slots :
          Count(hist[s], "S") > 0 => Len(toMaster'[s]) <= Len(toMaster[s])]_vars

C27_Witness ==
  /\ NormalExit
  /\ Len(recvLog) = MaxTasks
  /\ \A s \in UsedSlots : Count(hist[s], "S") = 1

\* C28 (as claimed): once the master has returned after dispatching work,
\* every dispatched task either has a result the master received with
\* status 0 or has a row in an existing unfinished_tasks.txt.
CompletedOk(id) == \E j \in ResultsFor(id) : recvLog[j].status = 0

ListedUnfinished(id) ==
  unfFile = "present" /\ \E i \in 1..Len(unfRows) : unfRows[i][1] = id

Alive(s) == wpc[s] \notin {"unspawned", "exited", "stopped", "killed"}

C29_TransportHaltedAtExit ==
  (mpc = "exit" /\ pvmStarted) =>
    /\ pvmd = "halted"
    /\ \A s \in Slots : ~Alive(s)

\* C30 (as claimed): the program file is rewritten only for task class 0
\* with single-core mode requested, and once the master has returned the
\* program file is not left rewritten.
C30_MapleRewriteScopedAndRestored ==
  /\ mapleState # "orig" => (task_type = 0 /\ maple_single)
  /\ mpc = "exit" => mapleState # "rewritten"

====
